---- MODULE Spec2Model ----
(***************************************************************************)
(* PichMatcher: the McLeod-style pitch detector of src/lib/pitchy.js and   *)
(* the game loop of src/app.js that drives it.                             *)
(*                                                                         *)
(* Numbers.  JavaScript numbers are modelled as exact values:              *)
(*   [k |-> "num", n |-> p, d |-> q]   the rational p/q in lowest terms,   *)
(*   [k |-> "nan"], [k |-> "inf"], [k |-> "-inf"]  the IEEE specials       *)
(* (n, d are padded so that all values have the same record shape).        *)
(* Samples are small integers, so every sum of products is exact in a      *)
(* double, and two distinct quotients of such sums differ by far more than *)
(* a Float32 ulp: storing them into the Float32Array of line 30 preserves  *)
(* every comparison the code makes.  JS array index i is TLA+ index i+1.   *)
(***************************************************************************)
EXTENDS Integers, Sequences, FiniteSets, TLC

\* ---------------------------------------------------------------- bounds
MaxLen == 5            \* detector lengths and caller buffers: 1..MaxLen
MaxRepeatLen == 4      \* the same, in the repeated-call specification
MaxPeakLen == 6        \* nsdf arrays handed to the peak functions
MaxSineLen == 13       \* buffer lengths for the sinusoid inputs
MaxF0 == 2             \* sinusoid frequencies f0 in 1..MaxF0
MaxClicks == 3         \* Start-button clicks in the game loop
MaxFrames == 3         \* animation frames in the game loop

\* ---------------------------------------------- program constants
DEFAULT_MIN_VOLUME_DECIBELS == -60
AppMinVolumeDecibels == -10
minClarityPercent == 80
fftSize == 2048
null == -1             \* JS null / "no position"; real positions are >= 0

SampleValues == {-1, 0, 1}
RepeatValues == {0, 1}
SampleRates == {-1, 0, 1, 2}

\* ------------------------------------------------------------- numbers
NaN == [k |-> "nan", n |-> 0, d |-> 1]
Infinity == [k |-> "inf", n |-> 0, d |-> 1]
NegInfinity == [k |-> "-inf", n |-> 0, d |-> 1]

Abs(x) == IF x < 0 THEN -x ELSE x

RECURSIVE GCD(_, _)
GCD(a, b) == IF b = 0 THEN a ELSE GCD(b, a % b)

\* the rational p/q, q > 0, in lowest terms
Rat(p, q) ==
    LET g == GCD(Abs(p), q)
    IN [k |-> "num", n |-> p \div g, d |-> q \div g]

Int2Num(i) == Rat(i, 1)
Zero == Int2Num(0)
One == Int2Num(1)

\* JS a / b on two integers
Div(a, b) ==
    IF b = 0
    THEN IF a = 0 THEN NaN ELSE IF a > 0 THEN Infinity ELSE NegInfinity
    ELSE IF b > 0 THEN Rat(a, b) ELSE Rat(-a, -b)

\* JS x > y : false as soon as one side is NaN
Gt(x, y) ==
    IF x.k = "nan" \/ y.k = "nan" THEN FALSE
    ELSE IF x.k = "inf" THEN y.k # "inf"
    ELSE IF x.k = "-inf" THEN FALSE
    ELSE IF y.k = "inf" THEN FALSE
    ELSE IF y.k = "-inf" THEN TRUE
    ELSE x.n * y.d > y.n * x.d

\* JS x < y
Lt(x, y) == Gt(y, x)

\* JS x <= y : false as soon as one side is NaN
Le(x, y) == x.k # "nan" /\ y.k # "nan" /\ ~Gt(x, y)

\* JS a[i] read as a number: an index outside the array yields undefined,
\* which every comparison and every product treats as NaN
Elem(a, i) == IF 0 <= i /\ i < Len(a) THEN a[i + 1] ELSE NaN

\* ------------------------------------------------- src/lib/pitchy.js
\* constructor(inputLength)   (the FFT object of line 8 is never used)
PitchDetector(inputLength) ==
    [inputLength |-> inputLength,
     minVolumeDecibels |-> DEFAULT_MIN_VOLUME_DECIBELS]

forFloat32Array(length) == PitchDetector(length)

\* the inner loop with line 36 accumulating input[i]^2 only
RECURSIVE nsdfInnerLoop_OneSidedDivisor(_, _, _, _, _)
nsdfInnerLoop_OneSidedDivisor(inputLength, input, tau, i, st) ==
    IF i < inputLength - tau
    THEN nsdfInnerLoop_OneSidedDivisor(inputLength, input, tau, i + 1,
            IF i + tau < Len(input)
            THEN [st EXCEPT
                    !.acf = @ + input[i + 1] * input[i + tau + 1],
                    !.divisorM = @ + input[i + 1] * input[i + 1]]
            ELSE [st EXCEPT !.nan = TRUE])
    ELSE st

\* the inner loop of normalizedSquareDifference, lines 34-37: st carries
\* acf, divisorM and whether an undefined sample has turned them into NaN
RECURSIVE nsdfInnerLoop(_, _, _, _, _)
nsdfInnerLoop(inputLength, input, tau, i, st) ==
    IF i < inputLength - tau
    THEN nsdfInnerLoop(inputLength, input, tau, i + 1,
            IF i + tau < Len(input)
            THEN [st EXCEPT
                    !.acf = @ + input[i + 1] * input[i + tau + 1],
                    !.divisorM = @ + input[i + 1] * input[i + 1]
                                   + input[i + tau + 1] * input[i + tau + 1]]
            ELSE [st EXCEPT !.nan = TRUE])
    ELSE st

\* one iteration of the outer loop, lines 32-38: the value stored at nsdf[tau]
nsdfAt(inputLength, input, tau) ==
    LET st == nsdfInnerLoop(inputLength, input, tau, 0,
                            [acf |-> 0, divisorM |-> 0, nan |-> FALSE])
    IN IF st.nan THEN NaN ELSE Div(2 * st.acf, st.divisorM)

normalizedSquareDifference(this, input) ==
    [t \in 1..this.inputLength |-> nsdfAt(this.inputLength, input, t - 1)]

\* the while loop of peakPicking, lines 49-62
RECURSIVE peakPickingLoop(_, _, _)
peakPickingLoop(inputLength, nsdf, st) ==
    IF st.pos < inputLength
    THEN LET v == Elem(nsdf, st.pos)
         IN peakPickingLoop(inputLength, nsdf,
              IF Gt(v, Zero) /\ ~st.isPositive
              THEN [st EXCEPT !.isPositive = TRUE, !.curMaxPos = st.pos,
                              !.pos = @ + 1]
              ELSE IF Le(v, Zero) /\ st.isPositive
              THEN [st EXCEPT !.isPositive = FALSE,
                              !.maxPositions = IF st.curMaxPos > 0
                                               THEN Append(@, st.curMaxPos)
                                               ELSE @,
                              !.pos = @ + 1]
              ELSE IF st.isPositive /\ Gt(v, Elem(nsdf, st.curMaxPos))
              THEN [st EXCEPT !.curMaxPos = st.pos, !.pos = @ + 1]
              ELSE [st EXCEPT !.pos = @ + 1])
    ELSE st.maxPositions

peakPicking(this, nsdf) ==
    peakPickingLoop(this.inputLength, nsdf,
        [pos |-> 0, curMaxPos |-> 0, isPositive |-> FALSE,
         maxPositions |-> <<>>])

\* the forEach of findBestPeak, lines 70-75
RECURSIVE findBestPeakLoop(_, _, _, _)
findBestPeakLoop(maxPositions, nsdf, j, st) ==
    IF j <= Len(maxPositions)
    THEN findBestPeakLoop(maxPositions, nsdf, j + 1,
            IF Gt(Elem(nsdf, maxPositions[j]), st.highestAmplitude)
            THEN [highestAmplitude |-> Elem(nsdf, maxPositions[j]),
                  bestPosition |-> maxPositions[j]]
            ELSE st)
    ELSE st.bestPosition

\* findBestPeak with bestPosition initialised to 0 instead of null
findBestPeak_InitZero(maxPositions, nsdf) ==
    findBestPeakLoop(maxPositions, nsdf, 1,
        [highestAmplitude |-> NegInfinity, bestPosition |-> 0])

\* findBestPeak(maxPositions, nsdf), lines 66-78
findBestPeak(maxPositions, nsdf) ==
    findBestPeakLoop(maxPositions, nsdf, 1,
        [highestAmplitude |-> NegInfinity, bestPosition |-> null])

\* the while loop with the guard of line 82 admitting index 0
RECURSIVE findTurningPointLoop_FromZero(_, _, _)
findTurningPointLoop_FromZero(maxPosition, nsdf, delta) ==
    IF maxPosition + delta < Len(nsdf) /\ maxPosition - delta >= 0
    THEN IF Gt(Elem(nsdf, maxPosition - delta), Elem(nsdf, maxPosition + delta))
         THEN maxPosition - delta
         ELSE IF Lt(Elem(nsdf, maxPosition - delta),
                    Elem(nsdf, maxPosition + delta))
         THEN maxPosition + delta
         ELSE findTurningPointLoop_FromZero(maxPosition, nsdf, delta + 1)
    ELSE maxPosition

\* the while loop with the two returns of lines 84 and 86 exchanged
RECURSIVE findTurningPointLoop_Swapped(_, _, _)
findTurningPointLoop_Swapped(maxPosition, nsdf, delta) ==
    IF maxPosition + delta < Len(nsdf) /\ maxPosition - delta > 0
    THEN IF Gt(Elem(nsdf, maxPosition - delta), Elem(nsdf, maxPosition + delta))
         THEN maxPosition + delta
         ELSE IF Lt(Elem(nsdf, maxPosition - delta),
                    Elem(nsdf, maxPosition + delta))
         THEN maxPosition - delta
         ELSE findTurningPointLoop_Swapped(maxPosition, nsdf, delta + 1)
    ELSE maxPosition

\* the while loop of findTurningPoint, lines 82-89
RECURSIVE findTurningPointLoop(_, _, _)
findTurningPointLoop(maxPosition, nsdf, delta) ==
    IF maxPosition + delta < Len(nsdf) /\ maxPosition - delta > 0
    THEN IF Gt(Elem(nsdf, maxPosition - delta), Elem(nsdf, maxPosition + delta))
         THEN maxPosition - delta
         ELSE IF Lt(Elem(nsdf, maxPosition - delta),
                    Elem(nsdf, maxPosition + delta))
         THEN maxPosition + delta
         ELSE findTurningPointLoop(maxPosition, nsdf, delta + 1)
    ELSE maxPosition

findTurningPoint(maxPosition, nsdf) ==
    findTurningPointLoop(maxPosition, nsdf, 0)

\* findPitch resizing the detector to the buffer it was handed
findPitch_ResizesDetector(this, input, sampleRate) ==
    LET nsdf == normalizedSquareDifference(this, input)
        maxPositions == peakPicking(this, nsdf)
        maxPosition == findBestPeak(maxPositions, nsdf)
        turningPointX == findTurningPoint(maxPosition, nsdf)
    IN [this |-> [this EXCEPT !.inputLength = Len(input)],
        input |-> input,
        thrown |-> "none",
        nsdf |-> nsdf,
        maxPositions |-> maxPositions,
        maxPosition |-> maxPosition,
        turningPointX |-> IF maxPosition = null THEN null ELSE turningPointX,
        ret |-> IF maxPosition = null
                THEN <<Zero, Zero>>
                ELSE <<Div(sampleRate, turningPointX),
                       Elem(nsdf, turningPointX)>>]

\* findPitch(input, sampleRate), lines 16-27.  The value is the whole
\* outcome of the call: the detector and the caller's buffer as the call
\* leaves them (no line of 16-91 assigns to this.* or to input[..]), the
\* returned pair, what was thrown (nothing is), and the locals.
findPitch(this, input, sampleRate) ==
    LET nsdf == normalizedSquareDifference(this, input)
        maxPositions == peakPicking(this, nsdf)
        maxPosition == findBestPeak(maxPositions, nsdf)
        turningPointX == findTurningPoint(maxPosition, nsdf)
    IN [this |-> this,
        input |-> input,
        thrown |-> "none",
        nsdf |-> nsdf,
        maxPositions |-> maxPositions,
        maxPosition |-> maxPosition,
        turningPointX |-> IF maxPosition = null THEN null ELSE turningPointX,
        ret |-> IF maxPosition = null
                THEN <<Zero, Zero>>
                ELSE <<Div(sampleRate, turningPointX),
                       Elem(nsdf, turningPointX)>>]

\* --------------------------------------------------------------- state
VARIABLES
    detector,      \* the PitchDetector instance: its fields
    inputBuffer,   \* the caller's sample buffer
    sampleRate,    \* the sample rate the caller passes
    call,          \* the findPitch call that has just returned, or NoCall
    first,         \* the first findPitch call made on the detector (history)
    sinePeriod     \* P when inputBuffer holds a sinusoid of period P, else 0

VARIABLES
    nsdfArg,          \* an nsdf array handed to the peak functions
    maxPositionArg,   \* the lag handed to findTurningPoint
    maxPositionsRet,  \* what peakPicking returned, or NotPicked
    turningPointRet   \* what findTurningPoint returned, or null

VARIABLES
    game,          \* the PitchGame instance: its fields
    browser        \* the page around it: audio contexts, pending promises,
                   \* requested animation frames, clicks and frames so far

detVars == <<detector, inputBuffer, sampleRate, call, first, sinePeriod>>
peakVars == <<nsdfArg, maxPositionArg, maxPositionsRet, turningPointRet>>
gameVars == <<game, browser>>

vars == <<detVars, peakVars, gameVars>>

NoCall == [made |-> FALSE]
Unused == "unused"

Buffers(values, maxLen) ==
    UNION {[1..n -> values] : n \in 1..maxLen}

DetUnused ==
    /\ detector = Unused /\ inputBuffer = Unused /\ sampleRate = Unused
    /\ call = Unused /\ first = Unused /\ sinePeriod = Unused

PeakUnused ==
    /\ nsdfArg = Unused /\ maxPositionArg = Unused
    /\ maxPositionsRet = Unused /\ turningPointRet = Unused

GameUnused == game = Unused /\ browser = Unused

\* detector.findPitch(inputBuffer, sampleRate) and what it leaves behind
FindPitchCall ==
    LET r == findPitch(detector, inputBuffer, sampleRate)
    IN /\ detector' = r.this
       /\ inputBuffer' = r.input
       /\ call' = [made |-> TRUE,
                   this |-> detector,
                   input |-> inputBuffer,
                   sampleRate |-> sampleRate,
                   thrown |-> r.thrown,
                   nsdf |-> r.nsdf,
                   maxPositions |-> r.maxPositions,
                   maxPosition |-> r.maxPosition,
                   turningPointX |-> r.turningPointX,
                   ret |-> r.ret]
       /\ UNCHANGED <<sampleRate, sinePeriod, peakVars, gameVars>>

\* the caller overwrites one sample of its buffer (the analyser refilling
\* it, src/app.js line 336); the previous result is consumed
WriteSampleFrom(values) ==
    /\ \E i \in 1..Len(inputBuffer), v \in values :
          /\ inputBuffer[i] # v
          /\ inputBuffer' = [inputBuffer EXCEPT ![i] = v]
    /\ call' = NoCall
    /\ UNCHANGED <<detector, sampleRate, first, sinePeriod>>
    /\ UNCHANGED <<peakVars, gameVars>>

\* the caller sets the tunable, src/app.js line 262
SetMinVolumeDecibels ==
    /\ detector.minVolumeDecibels # AppMinVolumeDecibels
    /\ detector' = [detector EXCEPT !.minVolumeDecibels = AppMinVolumeDecibels]
    /\ call' = NoCall
    /\ UNCHANGED <<inputBuffer, sampleRate, first, sinePeriod>>
    /\ UNCHANGED <<peakVars, gameVars>>

\* ---- Spec: one detector, any buffer, any rate, single calls
\* a detector constructed for some length, and any caller buffer and rate
Init ==
    /\ \E n \in 1..MaxLen : detector = forFloat32Array(n)
    /\ inputBuffer \in Buffers(SampleValues, MaxLen)
    /\ sampleRate \in SampleRates
    /\ call = NoCall
    /\ first = Unused
    /\ sinePeriod = 0
    /\ PeakUnused /\ GameUnused

FindPitch == FindPitchCall /\ UNCHANGED first

WriteSample == WriteSampleFrom(SampleValues)

Next == FindPitch \/ WriteSample \/ SetMinVolumeDecibels

Spec == Init /\ [][Next]_vars

\* ---- SpecRepeat: sequences of calls on one detector, the first remembered
InitRepeat ==
    /\ \E n \in 1..MaxRepeatLen : detector = forFloat32Array(n)
    /\ inputBuffer \in Buffers(RepeatValues, MaxRepeatLen)
    /\ sampleRate \in SampleRates
    /\ call = NoCall
    /\ first = NoCall
    /\ sinePeriod = 0
    /\ PeakUnused /\ GameUnused

FindPitchFirst ==
    /\ ~first.made
    /\ FindPitchCall
    /\ first' = [made |-> TRUE, input |-> inputBuffer,
                 sampleRate |-> sampleRate,
                 ret |-> call'.ret, thrown |-> call'.thrown,
                 between |-> FALSE]

FindPitchAgain ==
    /\ first.made
    /\ FindPitchCall
    /\ first' = [first EXCEPT !.between =
                    @ \/ inputBuffer # first.input
                      \/ sampleRate # first.sampleRate]

WriteSampleRepeat == WriteSampleFrom(RepeatValues)

NextRepeat ==
    \/ FindPitchFirst
    \/ FindPitchAgain
    \/ WriteSampleRepeat
    \/ SetMinVolumeDecibels

SpecRepeat == InitRepeat /\ [][NextRepeat]_vars

\* ---- SpecSine: one call on a sampled sinusoid
SinePeriods == {2, 3, 4, 6}

\* 2*cos(2*pi/P): a sinusoid of period P satisfies
\* s[i+2] = SineCoeff(P)*s[i+1] - s[i]
SineCoeff(P) == CASE P = 2 -> -2 [] P = 3 -> -1 [] P = 4 -> 0 [] P = 6 -> 1

\* the first two samples; they fix amplitude and phase.  Not both zero
\* (amplitude > 0), and for P = 2 the sinusoid is a, -a, a, ... with a # 0
SineSeeds(P) ==
    {s \in SampleValues \X SampleValues :
        /\ s # <<0, 0>>
        /\ P = 2 => (s[2] = -s[1])}

RECURSIVE SineSamples(_, _, _)
SineSamples(P, seed, n) ==
    IF n = 1 THEN <<seed[1]>>
    ELSE IF n = 2 THEN <<seed[1], seed[2]>>
    ELSE LET s == SineSamples(P, seed, n - 1)
         IN Append(s, SineCoeff(P) * s[n - 1] - s[n - 2])

InitSine ==
    \E P \in SinePeriods, f0 \in 1..MaxF0 :
      \E n \in (2 * P)..MaxSineLen, seed \in SineSeeds(P) :
        /\ detector = forFloat32Array(n)
        /\ inputBuffer = SineSamples(P, seed, n)
        /\ sampleRate = P * f0
        /\ call = NoCall
        /\ first = Unused
        /\ sinePeriod = P
        /\ PeakUnused /\ GameUnused

FindPitchSine == ~call.made /\ FindPitchCall /\ UNCHANGED first

NextSine == FindPitchSine

SpecSine == InitSine /\ [][NextSine]_vars

\* ---- SpecPeaks: peakPicking and findTurningPoint on any nsdf array
NotPicked == <<null>>

PeakValues == {NaN, Int2Num(-1), Rat(1, 2), One}

InitPeaks ==
    /\ \E n \in 1..MaxPeakLen :
          /\ nsdfArg \in [1..n -> PeakValues]
          /\ maxPositionArg \in 0..(n - 1)
    /\ maxPositionsRet = NotPicked
    /\ turningPointRet = null
    /\ DetUnused /\ GameUnused

PeakPicking ==
    /\ maxPositionsRet = NotPicked
    /\ maxPositionsRet' = peakPicking(forFloat32Array(Len(nsdfArg)), nsdfArg)
    /\ UNCHANGED <<nsdfArg, maxPositionArg, turningPointRet>>
    /\ UNCHANGED <<detVars, gameVars>>

FindTurningPoint ==
    /\ turningPointRet = null
    /\ turningPointRet' = findTurningPoint(maxPositionArg, nsdfArg)
    /\ UNCHANGED <<nsdfArg, maxPositionArg, maxPositionsRet>>
    /\ UNCHANGED <<detVars, gameVars>>

NextPeaks == PeakPicking \/ FindTurningPoint

SpecPeaks == InitPeaks /\ [][NextPeaks]_vars

\* ------------------------------------------------------- src/app.js
\* ---- SpecGame: the PitchGame instance under clicks, promise
\* settlements and animation frames
NoDetector == [inputLength |-> 0, minVolumeDecibels |-> 0]

TargetPitches == {200, 300}      \* values generateNewTarget can draw
Pitches == {205, 400}            \* pitches findPitch can report
ClarityPercents == {79, 80}      \* clarities findPitch can report, in percent

Invocations == 1..MaxClicks

\* constructor(), lines 191-228 (0 stands for null)
PitchGame ==
    [audioContext |-> 0, analyser |-> 0, microphone |-> 0,
     isPlaying |-> FALSE, score |-> 0, targetPitch |-> 0, stream |-> 0,
     detector |-> NoDetector, inputBuffer |-> 0,
     minVolumeDecibels |-> AppMinVolumeDecibels,
     minClarityPercent |-> minClarityPercent,
     inputBufferSize |-> fftSize,
     startBtnText |-> "Start Game"]

InitGame ==
    /\ game = PitchGame
    /\ browser = [ctxState |-> [c \in Invocations |-> "none"],
                  pending |-> {},
                  rafQueue |-> 0, frameLeft |-> 0, frameGain |-> 0,
                  clicks |-> 0, frames |-> 0]
    /\ DetUnused /\ PeakUnused

\* generateNewTarget(), lines 288-292, drawing t
generateNewTarget(g, t) == [g EXCEPT !.targetPitch = t]

\* updatePitch(), lines 333-350, when findPitch reports (pitch, clarity)
updatePitch(g, pitch, clarityPct, t) ==
    IF g.analyser = 0 \/ g.detector = NoDetector \/ g.audioContext = 0
         \/ g.inputBuffer = 0
    THEN g
    ELSE IF clarityPct >= g.minClarityPercent
              /\ Abs(pitch - g.targetPitch) < 10
    THEN generateNewTarget([g EXCEPT !.score = @ + 1], t)
    ELSE g

\* update(), lines 294-300: the game after it, and whether it requested
\* another animation frame
update(g, pitch, clarityPct, t) ==
    IF ~g.isPlaying
    THEN [game |-> g, requested |-> 0]
    ELSE [game |-> updatePitch(g, pitch, clarityPct, t), requested |-> 1]

\* stopGame(), lines 276-286
stopGame(g) ==
    [g EXCEPT !.stream = 0, !.isPlaying = FALSE,
              !.startBtnText = "Start Game"]

\* a click on the Start button: startGame() up to its first await
ClickStart ==
    /\ browser.clicks < MaxClicks
    /\ browser.frameLeft = 0
    /\ IF game.isPlaying
       THEN /\ game' = stopGame(game)
            /\ browser' = [browser EXCEPT
                  !.clicks = @ + 1,
                  !.ctxState = IF game.audioContext # 0
                               THEN [@ EXCEPT ![game.audioContext] = "closed"]
                               ELSE @]
       ELSE \E st \in {"suspended", "running"} :
            LET inv == browser.clicks + 1
            IN /\ game' = [game EXCEPT !.audioContext = inv]
               /\ browser' = [browser EXCEPT
                     !.clicks = @ + 1,
                     !.ctxState = [@ EXCEPT ![inv] = st],
                     !.pending = @ \cup
                        {[inv |-> inv,
                          pc |-> IF st = "suspended" THEN "resume"
                                 ELSE "getUserMedia"]}]
    /\ UNCHANGED <<detVars, peakVars>>

\* the promise of audioContext.resume() settles, line 240: rejected on a
\* closed context (caught at line 270), otherwise startGame goes on to
\* request the microphone
ResumeSettled ==
    /\ \E p \in browser.pending :
          /\ p.pc = "resume"
          /\ IF browser.ctxState[p.inv] = "closed"
             THEN browser' = [browser EXCEPT !.pending = @ \ {p}]
             ELSE browser' = [browser EXCEPT
                     !.ctxState = [@ EXCEPT ![p.inv] = "running"],
                     !.pending = (@ \ {p}) \cup
                                 {[inv |-> p.inv, pc |-> "getUserMedia"]}]
    /\ UNCHANGED <<game, detVars, peakVars>>

\* getUserMedia rejects, line 243: caught at line 270
GetUserMediaRejected ==
    /\ \E p \in browser.pending :
          /\ p.pc = "getUserMedia"
          /\ browser' = [browser EXCEPT !.pending = @ \ {p}]
    /\ UNCHANGED <<game, detVars, peakVars>>

\* getUserMedia resolves: startGame runs lines 243-269.  Building the audio
\* graph on a context that stopGame has closed may throw (caught at 270).
GetUserMediaResolved ==
    /\ \E p \in browser.pending :
        /\ p.pc = "getUserMedia"
        /\ \E throws \in BOOLEAN, t \in TargetPitches, t2 \in TargetPitches,
              pitch \in Pitches, clarityPct \in ClarityPercents :
            LET g1 == [game EXCEPT !.stream = p.inv]
                g2 == [g1 EXCEPT
                         !.analyser = g1.audioContext,
                         !.microphone = p.inv,
                         !.detector =
                            [forFloat32Array(fftSize) EXCEPT
                               !.minVolumeDecibels = g1.minVolumeDecibels],
                         !.inputBuffer = fftSize]
                g3 == [generateNewTarget(g2, t) EXCEPT
                         !.isPlaying = TRUE, !.startBtnText = "Stop"]
                u == update(g3, pitch, clarityPct, t2)
            IN IF throws
               THEN /\ browser.ctxState[game.audioContext] = "closed"
                    /\ game' = g1
                    /\ browser' = [browser EXCEPT !.pending = @ \ {p}]
               ELSE /\ game' = u.game
                    /\ browser' = [browser EXCEPT
                          !.pending = @ \ {p},
                          !.rafQueue = @ + u.requested]
    /\ UNCHANGED <<detVars, peakVars>>

\* the browser starts an animation frame: the callbacks requested so far
\* are the ones this frame runs
AnimationFrame ==
    /\ browser.frameLeft = 0
    /\ browser.rafQueue > 0
    /\ browser.frames < MaxFrames
    /\ browser' = [browser EXCEPT !.frameLeft = browser.rafQueue,
                                  !.rafQueue = 0, !.frameGain = 0,
                                  !.frames = @ + 1]
    /\ UNCHANGED <<game, detVars, peakVars>>

\* one callback of the running frame: () => this.update(), line 299
RafCallback ==
    /\ browser.frameLeft > 0
    /\ \E t \in TargetPitches, pitch \in Pitches,
          clarityPct \in ClarityPercents :
          LET u == update(game, pitch, clarityPct, t)
          IN /\ game' = u.game
             /\ browser' = [browser EXCEPT
                   !.frameLeft = @ - 1,
                   !.rafQueue = @ + u.requested,
                   !.frameGain = @ + (u.game.score - game.score)]
    /\ UNCHANGED <<detVars, peakVars>>

NextGame ==
    \/ ClickStart
    \/ ResumeSettled
    \/ GetUserMediaRejected
    \/ GetUserMediaResolved
    \/ AnimationFrame
    \/ RafCallback

SpecGame == InitGame /\ [][NextGame]_vars

\* ------------------------------------------------ claims on findPitch
\* the call that has just returned met both preconditions of estimate
ValidCall ==
    /\ call.made
    /\ Len(call.input) = call.this.inputLength
    /\ call.sampleRate > 0

AllZero(input) == \A i \in 1..Len(input) : input[i] = 0

HasNaN(nsdf) == \E t \in 1..Len(nsdf) : nsdf[t].k = "nan"

\* C2: a call on a buffer of N >= 1 samples that are all zero, with a sample
\* rate > 0, returns exactly the pair (0, 0) and throws nothing.
C2_AllZeroReturnsZeroZero ==
    (ValidCall /\ AllZero(call.input))
        => (call.ret = <<Zero, Zero>> /\ call.thrown = "none")

C2_Witness ==
    /\ ValidCall
    /\ AllZero(call.input)
    /\ Len(call.input) >= 2
    /\ HasNaN(call.nsdf)
    /\ call.ret = <<Zero, Zero>>

\* C3: a call with a buffer whose length differs from the detector's N, or
\* with sampleRate <= 0, raises InvalidInput and yields no result.
C3_PreconditionViolationRaises ==
    (call.made /\ (Len(call.input) # call.this.inputLength
                      \/ call.sampleRate <= 0))
        => call.thrown = "InvalidInput"

\* C4: for a buffer of length N and a sample rate > 0 the confidence is a
\* number c with -1 <= c <= 1, never NaN, also when a lag has divisor zero.
C4_ConfidenceInRange ==
    ValidCall =>
        /\ call.ret[2].k = "num"
        /\ Le(Int2Num(-1), call.ret[2])
        /\ Le(call.ret[2], One)

C4_Witness ==
    /\ ValidCall
    /\ HasNaN(call.nsdf)
    /\ call.maxPositions # <<>>
    /\ Gt(call.ret[2], Zero)

\* C5: no division by a zero or negative lag.  With an empty candidate list
\* the call returns (0, 0) without refining a lag; with a non-empty list the
\* refined lag is an integer in 1..N-1, and for sampleRate > 0 the returned
\* frequency is a finite number > 0.
C5_LagPositive ==
    call.made =>
        IF call.maxPositions = <<>>
        THEN call.turningPointX = null /\ call.ret = <<Zero, Zero>>
        ELSE /\ call.turningPointX \in 1..(call.this.inputLength - 1)
             /\ call.sampleRate > 0 =>
                    (call.ret[1].k = "num" /\ Gt(call.ret[1], Zero))

C5_Witness ==
    /\ ValidCall
    /\ call.maxPositions # <<>>
    /\ call.turningPointX # call.maxPosition
    /\ call.turningPointX \in 1..(call.this.inputLength - 1)
    /\ Gt(call.ret[1], Zero)

\* the sums of the definition, over i in 0..N-tau-1
RECURSIVE SumOver(_, _, _)
SumOver(F(_), lo, hi) ==
    IF lo > hi THEN 0 ELSE F(lo) + SumOver(F, lo + 1, hi)

AcfOf(input, tau) ==
    LET F(i) == input[i + 1] * input[i + tau + 1]
    IN SumOver(F, 0, Len(input) - tau - 1)

DivisorOf(input, tau) ==
    LET F(i) == input[i + 1] * input[i + 1]
                  + input[i + tau + 1] * input[i + tau + 1]
    IN SumOver(F, 0, Len(input) - tau - 1)

\* C7: for every lag tau in 0..N-1, nsdf[tau] = 2*acf(tau)/divisor(tau) when
\* divisor(tau) > 0, and nsdf[tau] = 0 when divisor(tau) = 0.
C7_NsdfFormula ==
    ValidCall =>
        \A tau \in 0..(Len(call.input) - 1) :
            call.nsdf[tau + 1] =
                IF DivisorOf(call.input, tau) > 0
                THEN Rat(2 * AcfOf(call.input, tau), DivisorOf(call.input, tau))
                ELSE Zero

\* C6: findPitch is stateless and side-effect-free.  A call leaves the
\* detector's fields and the caller's buffer as they were, and a call with
\* the same (samples, sampleRate) as the first call returns the same result,
\* whatever calls were made in between.
C6_CallsIndependent ==
    call.made =>
        /\ detector = call.this
        /\ inputBuffer = call.input
        /\ (first.made /\ call.input = first.input
                       /\ call.sampleRate = first.sampleRate)
               => (call.ret = first.ret /\ call.thrown = first.thrown)

C6_Witness ==
    /\ call.made
    /\ first.made
    /\ first.between
    /\ call.input = first.input
    /\ call.sampleRate = first.sampleRate
    /\ call.ret = first.ret
    /\ call.maxPositions # <<>>

\* ------------------------------------------------ claims on sinusoids
\* C1: for a sinusoid of frequency f0 = Fs/P in a buffer of N >= 2P samples,
\* findPitch returns a frequency within 1% of f0 and a confidence >= 0.9.
\* (|n/d - Fs/P| <= Fs/(100 P) and c >= 9/10, cleared of denominators.)
C1_SineWithinOnePercent ==
    (call.made /\ sinePeriod > 0) =>
        /\ call.ret[1].k = "num"
        /\ Abs(100 * sinePeriod * call.ret[1].n
                 - 100 * call.sampleRate * call.ret[1].d)
              <= call.sampleRate * call.ret[1].d
        /\ Le(Rat(9, 10), call.ret[2])

\* ------------------------------------- claims on the peak functions
Positive(nsdf, t) == Gt(Elem(nsdf, t), Zero)

\* the maximal contiguous runs a..b of lags with nsdf > 0
PositiveRuns(nsdf) ==
    {r \in (0..(Len(nsdf) - 1)) \X (0..(Len(nsdf) - 1)) :
        /\ r[1] <= r[2]
        /\ \A t \in r[1]..r[2] : Positive(nsdf, t)
        /\ ~Positive(nsdf, r[1] - 1)
        /\ ~Positive(nsdf, r[2] + 1)}

\* the lag of the first occurrence of the maximum of run r
FirstMaxOf(nsdf, r) ==
    CHOOSE t \in r[1]..r[2] :
        /\ \A u \in r[1]..r[2] : ~Gt(Elem(nsdf, u), Elem(nsdf, t))
        /\ \A u \in r[1]..(t - 1) : Gt(Elem(nsdf, t), Elem(nsdf, u))

\* C8: peakPicking returns, in strictly increasing order, exactly the lag of
\* the first maximum of every maximal run of lags with nsdf > 0 that does not
\* begin at lag 0, also of a run that extends to the last lag N-1.
\* (Stated for arrays of numbers.)
C8_OnePeakPerPositiveRun ==
    (maxPositionsRet # NotPicked /\ ~HasNaN(nsdfArg)) =>
        /\ \A j \in 1..(Len(maxPositionsRet) - 1) :
              maxPositionsRet[j] < maxPositionsRet[j + 1]
        /\ {maxPositionsRet[j] : j \in 1..Len(maxPositionsRet)}
             = {FirstMaxOf(nsdfArg, r) :
                  r \in {q \in PositiveRuns(nsdfArg) : q[1] > 0}}

\* the symmetric rule around lag L, over the offsets d with
\* lo <= L-d and L+d < N: at the smallest d where one of nsdf[L-d],
\* nsdf[L+d] is strictly larger than the other, the lag holding the larger
\* value; L if there is no such d
SymmetricRule(L, nsdf, lo) ==
    LET D == {d \in 0..Len(nsdf) :
                /\ lo <= L - d
                /\ L + d < Len(nsdf)
                /\ \/ Gt(Elem(nsdf, L - d), Elem(nsdf, L + d))
                   \/ Lt(Elem(nsdf, L - d), Elem(nsdf, L + d))}
    IN IF D = {} THEN L
       ELSE LET d == CHOOSE x \in D : \A y \in D : x <= y
            IN IF Gt(Elem(nsdf, L - d), Elem(nsdf, L + d))
               THEN L - d ELSE L + d

\* C9 as claimed: the offsets range over the d with 0 <= L-d and L+d < N.
\* (Stated for arrays of numbers.)
C9_SymmetricRuleFromZero ==
    (turningPointRet # null /\ ~HasNaN(nsdfArg)) =>
        turningPointRet = SymmetricRule(maxPositionArg, nsdfArg, 0)

\* C9 as amended: findTurningPoint(L, nsdf) returns the refined lag by the
\* symmetric rule over the offsets d with 1 <= L-d and L+d < N (index 0 is
\* never compared): at the smallest such d where one of nsdf[L-d], nsdf[L+d]
\* is strictly larger than the other (a NaN is neither), the lag holding the
\* larger value; L if there is no such d.
C9_SymmetricRuleFromOne ==
    turningPointRet # null =>
        turningPointRet = SymmetricRule(maxPositionArg, nsdfArg, 1)

C9_Witness ==
    /\ turningPointRet # null
    /\ Abs(turningPointRet - maxPositionArg) >= 2
    /\ HasNaN(nsdfArg)

\* ------------------------------------------- claims on the game loop
\* C10: under every interleaving of clicks, promise settlements and
\* animation frames at most one update loop (chain of requested animation
\* frames) is active, and one frame raises the score by at most 1.
C10_SingleUpdateLoop ==
    /\ browser.rafQueue + browser.frameLeft <= 1
    /\ browser.frameGain <= 1
====
